---- MODULE Spec2Model ----
(***************************************************************************)
(* A model of shadermake (src/src/lib.rs, src/src/manifest.rs): manifest   *)
(* discovery (gather_shaders), the per-shader compile pipeline (compile,   *)
(* compile_source, compile_fn) and the parallel fan-out of build.          *)
(*                                                                         *)
(* A path is a record [abs, comps]; a component is a sequence of tokens,   *)
(* "." being the token that separates a file stem from its extension.      *)
(***************************************************************************)
EXTENDS Naturals, Integers, Sequences, FiniteSets, TLC

\* ------------------------------------------------------------------ bounds
MaxShaders == 2

\* the manifests gather_shaders reads before the model stops following it
MaxVisits == 5

\* ------------------------------------------------------------------- paths
\* Option<T>
None == [some |-> FALSE]
Some(v) == [some |-> TRUE, v |-> v]

P(abs, comps) == [abs |-> abs, comps |-> comps]

ParentDir == <<"..">>
CurDir == <<".">>
Dot == "."

\* PathBuf::join: an absolute right-hand side replaces the left-hand side.
join(a, b) == IF b.abs THEN b ELSE P(a.abs, a.comps \o b.comps)

\* Path::file_name: the last component, unless it is "..".
file_name(p) ==
    IF p.comps = <<>> THEN None
    ELSE LET l == p.comps[Len(p.comps)] IN IF l = ParentDir THEN None ELSE Some(l)

\* index of the last "." token of a file name, 0 when there is none
LastDot(name) ==
    LET ds == {i \in 1..Len(name) : name[i] = Dot}
    IN IF ds = {} THEN 0 ELSE CHOOSE i \in ds : \A j \in ds : j <= i

\* Path::file_stem: the name up to its last ".", the whole name when it has
\* no "." or only a leading one.
file_stem(p) ==
    LET n == file_name(p) IN
    IF ~n.some THEN None
    ELSE IF LastDot(n.v) <= 1 THEN n
    ELSE Some(SubSeq(n.v, 1, LastDot(n.v) - 1))

\* Path::extension: what follows the last "." of the file name.
extension(p) ==
    LET n == file_name(p) IN
    IF ~n.some THEN None
    ELSE IF LastDot(n.v) <= 1 THEN None
    ELSE Some(SubSeq(n.v, LastDot(n.v) + 1, Len(n.v)))

\* PathBuf::set_extension: no effect without a file name; otherwise the
\* file name becomes stem "." extension.
set_extension(p, ext) ==
    IF ~file_name(p).some THEN p
    ELSE P(p.abs, SubSeq(p.comps, 1, Len(p.comps) - 1)
                     \o << file_stem(p).v \o <<Dot>> \o ext >>)

\* Path::parent
parent(p) ==
    IF p.comps = <<>> THEN None
    ELSE Some(P(p.abs, SubSeq(p.comps, 1, Len(p.comps) - 1)))

RECURSIVE Parents(_)
Parents(n) == IF n = 0 THEN <<>> ELSE <<ParentDir>> \o Parents(n - 1)

RECURSIVE DiffComps(_, _, _)
DiffComps(a, b, acc) ==
    IF a = <<>> /\ b = <<>> THEN Some(acc)
    ELSE IF b = <<>> THEN Some(acc \o a)
    ELSE IF a = <<>> THEN DiffComps(<<>>, Tail(b), acc \o <<ParentDir>>)
    ELSE IF acc = <<>> /\ Head(a) = Head(b) THEN DiffComps(Tail(a), Tail(b), acc)
    ELSE IF Head(b) = CurDir THEN DiffComps(Tail(a), Tail(b), acc \o <<Head(a)>>)
    ELSE IF Head(b) = ParentDir THEN None
    ELSE Some(acc \o <<ParentDir>> \o Parents(Len(b) - 1) \o a)

\* pathdiff::diff_paths(path, base)
diff_paths(path, base) ==
    IF path.abs # base.abs
    THEN IF path.abs THEN Some(path) ELSE None
    ELSE LET c == DiffComps(path.comps, base.comps, <<>>)
         IN IF c.some THEN Some(P(FALSE, c.v)) ELSE None

RECURSIVE ResolveComps(_, _, _)
ResolveComps(comps, acc, abs) ==
    IF comps = <<>> THEN acc
    ELSE IF Head(comps) = CurDir THEN ResolveComps(Tail(comps), acc, abs)
    ELSE IF Head(comps) # ParentDir THEN ResolveComps(Tail(comps), acc \o <<Head(comps)>>, abs)
    ELSE IF acc # <<>> /\ acc[Len(acc)] # ParentDir
         THEN ResolveComps(Tail(comps), SubSeq(acc, 1, Len(acc) - 1), abs)
    ELSE IF abs THEN ResolveComps(Tail(comps), acc, abs)
    ELSE ResolveComps(Tail(comps), acc \o <<ParentDir>>, abs)

\* The file or directory the operating system reaches for a path: "." is
\* skipped, ".." steps back to the parent (the root is its own parent).
resolve(p) == P(p.abs, ResolveComps(p.comps, <<>>, p.abs))

\* ----------------------------------------------------------- configuration
Targets == {"Spirv", "Wgsl", "Glsl"}

\* Target::extension
Target_extension(t) ==
    CASE t = "Spirv" -> <<"spv">>
      [] t = "Wgsl" -> <<"wgsl">>
      [] t = "Glsl" -> <<"glsl">>

ShaderKinds == {"Vertex", "Fragment", "Compute"}

\* The (source root, target root) pairs the model starts from: the command
\* line's absolute working directory with the default target directory, and
\* a library caller's relative source root with an absolute target root.
Roots ==
    { << P(TRUE, << <<"proj">> >>), P(FALSE, << <<"target">> >>) >>,
      << P(FALSE, << <<"shaders">> >>), P(TRUE, << <<"out">> >>) >> }

OptionsSet ==
    { [source_dir |-> r[1], target_dir |-> r[2], target |-> t] : r \in Roots, t \in Targets }

ManifestName == P(FALSE, << <<"shadermake", Dot, "toml">> >>)

\* ------------------------------------------------------- manifests on disk
\* manifest::Shader
Shader(path, kind) == [path |-> path, kind |-> kind]

File(stem, ext) == <<stem, Dot, ext>>

\* The shader declarations a manifest may hold, by name.
ShaderPool ==
    ("blit" :> Shader(P(FALSE, << File("blit", "wgsl") >>), "Fragment")) @@
    ("alt" :> Shader(P(FALSE, << File("blit", "glsl") >>), "Vertex")) @@
    ("tone" :> Shader(P(FALSE, << <<"fx">>, <<"tone", Dot, "map", Dot, "wgsl">> >>), "Compute")) @@
    ("noise" :> Shader(P(FALSE, << File("noise", "txt") >>), "Compute"))

Lib == <<"lib">>

\* Declarations whose path leaves the directory of their manifest: through
\* its parent, or by being absolute.
EscapingPool ==
    ("up" :> Shader(P(FALSE, << ParentDir, File("blit", "wgsl") >>), "Fragment")) @@
    ("lib" :> Shader(P(TRUE, << Lib, File("blit", "wgsl") >>), "Vertex"))

Post == <<"post">>
Ui == <<"ui">>
Deep == <<"deep">>

\* The names the manifest of each directory may declare.
NamesIn(d) ==
    CASE d = <<>> -> {"blit", "alt"}
      [] d = <<Post>> -> {"blit"}
      [] d = <<Ui>> -> {"noise"}
      [] d = <<Post, Deep>> -> {"tone"}

\* Directory trees: each directory (its components below the source root)
\* with the subdirectories its manifest lists.
Shapes ==
    { (<<>> :> <<>>),
      (<<>> :> << P(FALSE, <<Post>>), P(FALSE, <<Ui>>) >>)
          @@ (<<Post>> :> <<>>) @@ (<<Ui>> :> <<>>),
      (<<>> :> << P(FALSE, <<Post>>) >>) @@ (<<Post>> :> << P(FALSE, <<Deep>>) >>)
          @@ (<<Post, Deep>> :> <<>>) }

RECURSIVE SumCard(_, _)
SumCard(f, D) ==
    IF D = {} THEN 0
    ELSE LET d == CHOOSE x \in D : TRUE
         IN Cardinality(f[d]) + SumCard(f, D \ {d})

\* The content of one manifest file: well-formed TOML deserialises to a
\* Manifest (manifest.rs), anything else is rejected by from_toml.
Toml(wellformed, subdirectories, shaders) ==
    [wellformed |-> wellformed, subdirectories |-> subdirectories, shaders |-> shaders]

NoDir == << <<"-">> >>

\* The trees of manifest files the model starts from: a shape, at most
\* MaxShaders declarations spread over its manifests, and at most one
\* manifest that is missing or malformed.
Trees ==
    { [d \in {x \in DOMAIN shape : ~(bad[1] = x /\ bad[2] = "missing")} |->
          Toml(~(bad[1] = d /\ bad[2] = "malformed"), shape[d],
               [n \in decl[d] |-> ShaderPool[n]])] :
        <<shape, decl, bad>> \in
            { t \in UNION { {s} \X [DOMAIN s -> SUBSET DOMAIN ShaderPool]
                                \X ((DOMAIN s \cup {NoDir}) \X {"missing", "malformed"})
                            : s \in Shapes } :
                /\ \A d \in DOMAIN t[1] : t[2][d] \subseteq NamesIn(d)
                /\ SumCard(t[2], DOMAIN t[1]) <= MaxShaders
                /\ (t[3][1] = NoDir => t[3][2] = "missing") } }

\* a well-formed manifest listing these subdirectories and declaring these
\* names of the pools
Manifest(subdirectories, names) ==
    Toml(TRUE, subdirectories, [n \in names |-> (ShaderPool @@ EscapingPool)[n]])

\* Manifest graphs that are no plain tree of declarations below the root: a
\* plain tree for reference, a subdirectory listed twice, a subdirectory
\* listed by two manifests, a subdirectory listing its parent, a declared
\* path that climbs out of the root, an absolute declared path, and a
\* subdirectory outside the root.
Graphs ==
    { (<<>> :> Manifest(<< P(FALSE, <<Post>>) >>, {"blit"}))
          @@ (<<Post>> :> Manifest(<<>>, {"blit"})),
      (<<>> :> Manifest(<< P(FALSE, <<Post>>), P(FALSE, <<Post>>) >>, {}))
          @@ (<<Post>> :> Manifest(<<>>, {"blit"})),
      (<<>> :> Manifest(<< P(FALSE, <<Post>>), P(FALSE, <<Ui>>) >>, {}))
          @@ (<<Post>> :> Manifest(<<>>, {"blit"}))
          @@ (<<Ui>> :> Manifest(<< P(FALSE, <<ParentDir, Post>>) >>, {})),
      (<<>> :> Manifest(<< P(FALSE, <<Post>>) >>, {"blit"}))
          @@ (<<Post>> :> Manifest(<< P(FALSE, <<ParentDir>>) >>, {})),
      (<<>> :> Manifest(<<>>, {"blit", "up"})),
      (<<>> :> Manifest(<<>>, {"lib"})),
      (<<>> :> Manifest(<< P(FALSE, <<ParentDir, Lib>>) >>, {}))
          @@ (<<ParentDir, Lib>> :> Manifest(<<>>, {"blit"})) }

\* mutant of from_toml: a malformed manifest is read as an empty one
from_toml_or_default(toml) ==
    IF toml.wellformed
    THEN Some([subdirectories |-> toml.subdirectories, shaders |-> toml.shaders])
    ELSE Some([subdirectories |-> <<>>, shaders |-> <<>>])

\* Manifest::from_toml
from_toml(toml) ==
    IF toml.wellformed
    THEN Some([subdirectories |-> toml.subdirectories, shaders |-> toml.shaders])
    ELSE None

\* ------------------------------------------------------------------- state
VARIABLES
    options,             \* Options: source_dir, target_dir, target
    tree,                \* the manifest files under the source root
    pc,                  \* where build is
    queued_directories,  \* gather_shaders: the work stack
    gs_shaders,          \* gather_shaders: the local Vec being filled
    visited,             \* gather_shaders: the manifest paths read so far, in order
    shaders,             \* build: the worklist bound at line 72
    result,              \* what build returned to its caller
    item,                \* per worklist item: the closure's position and locals
    success,             \* the AtomicBool
    exit_code,           \* the status passed to std::process::exit
    gathered,            \* Logger::on_shaders_gathered calls (their arguments)
    compiling,           \* Logger::on_compiling calls per item (their arguments)
    compile_errors,      \* Logger::on_compile_error calls per item (the names passed)
    completed,           \* Logger::on_completed calls
    files,               \* output files written: path -> bytes
    dirs                 \* directories created by create_dir_all

vars == << options, tree, pc, queued_directories, gs_shaders, visited, shaders, result,
           item, success, exit_code, gathered, compiling, compile_errors,
           completed, files, dirs >>

\* ShaderToCompile
ShaderToCompile(name, path, kind) == [name |-> name, path |-> path, kind |-> kind]

NoPath == P(FALSE, <<>>)

\* fs::read_to_string of a manifest path: the file of the directory that
\* path names under the source root, if the tree has one.
read_manifest(manifest_path) ==
    LET ds == {d \in DOMAIN tree :
                 resolve(join(join(options.source_dir, P(FALSE, d)), ManifestName))
                     = resolve(manifest_path)}
    IN IF ds = {} THEN None ELSE Some(tree[CHOOSE d \in ds : TRUE])

\* The orders in which a HashMap with these keys may be iterated.
IterationOrders(keys) ==
    {o \in [1..Cardinality(keys) -> keys] : \A i, j \in DOMAIN o : o[i] = o[j] => i = j}

Init ==
    /\ options \in OptionsSet
    /\ tree \in Trees
    /\ pc = "gather"
    /\ queued_directories = << options.source_dir >>
    /\ gs_shaders = <<>>
    /\ visited = <<>>
    /\ shaders = <<>>
    /\ result = "none"
    /\ item = <<>>
    /\ success = TRUE
    /\ exit_code = -1
    /\ gathered = <<>>
    /\ compiling = <<>>
    /\ compile_errors = <<>>
    /\ completed = 0
    /\ files = <<>>
    /\ dirs = {}

\* the same start, over the manifest graphs
InitGraphs ==
    /\ options \in OptionsSet
    /\ tree \in Graphs
    /\ pc = "gather"
    /\ queued_directories = << options.source_dir >>
    /\ gs_shaders = <<>>
    /\ visited = <<>>
    /\ shaders = <<>>
    /\ result = "none"
    /\ item = <<>>
    /\ success = TRUE
    /\ exit_code = -1
    /\ gathered = <<>>
    /\ compiling = <<>>
    /\ compile_errors = <<>>
    /\ completed = 0
    /\ files = <<>>
    /\ dirs = {}

\* ---------------------------------------------------------- gather_shaders
\* mutant of GatherStep: the subdirectories of a manifest are not queued
GatherStep_without_subdirectories ==
    /\ pc = "gather"
    /\ queued_directories # <<>>
    /\ Len(visited) < MaxVisits
    /\ LET n == Len(queued_directories)
           directory == queued_directories[n]
           rest == SubSeq(queued_directories, 1, n - 1)
           manifest_path == join(directory, ManifestName)
           manifest_string == read_manifest(manifest_path)
           manifest == IF manifest_string.some THEN from_toml(manifest_string.v) ELSE None
       IN /\ visited' = Append(visited, manifest_path)
          /\ IF ~manifest_string.some \/ ~manifest.some
             THEN /\ pc' = "returned"
                  /\ result' = IF manifest_string.some THEN "malformed manifest file"
                                                       ELSE "failed to read"
                  /\ queued_directories' = <<>>
                  /\ gs_shaders' = <<>>
             ELSE /\ \E order \in IterationOrders(DOMAIN manifest.v.shaders) :
                        gs_shaders' = gs_shaders \o
                            [k \in DOMAIN order |->
                                ShaderToCompile(order[k],
                                                join(directory, manifest.v.shaders[order[k]].path),
                                                manifest.v.shaders[order[k]].kind)]
                  /\ queued_directories' = rest
                  /\ UNCHANGED << pc, result >>
    /\ UNCHANGED << options, tree, shaders, item, success, exit_code, gathered,
                    compiling, compile_errors, completed, files, dirs >>

\* One iteration of the while loop (lines 101-122): pop a directory, read and
\* parse its manifest (either failure returns the error from build through
\* the two ? operators), push its shaders and its subdirectories.
GatherStep ==
    /\ pc = "gather"
    /\ queued_directories # <<>>
    /\ Len(visited) < MaxVisits
    /\ LET n == Len(queued_directories)
           directory == queued_directories[n]
           rest == SubSeq(queued_directories, 1, n - 1)
           manifest_path == join(directory, ManifestName)
           manifest_string == read_manifest(manifest_path)
           manifest == IF manifest_string.some THEN from_toml(manifest_string.v) ELSE None
       IN /\ visited' = Append(visited, manifest_path)
          /\ IF ~manifest_string.some \/ ~manifest.some
             THEN /\ pc' = "returned"
                  /\ result' = IF manifest_string.some THEN "malformed manifest file"
                                                       ELSE "failed to read"
                  /\ queued_directories' = <<>>
                  /\ gs_shaders' = <<>>
             ELSE /\ \E order \in IterationOrders(DOMAIN manifest.v.shaders) :
                        gs_shaders' = gs_shaders \o
                            [k \in DOMAIN order |->
                                ShaderToCompile(order[k],
                                                join(directory, manifest.v.shaders[order[k]].path),
                                                manifest.v.shaders[order[k]].kind)]
                  /\ queued_directories' = rest \o
                         [k \in DOMAIN manifest.v.subdirectories |->
                             join(directory, manifest.v.subdirectories[k])]
                  /\ UNCHANGED << pc, result >>
    /\ UNCHANGED << options, tree, shaders, item, success, exit_code, gathered,
                    compiling, compile_errors, completed, files, dirs >>

TodoItem == [pc |-> "todo", source |-> <<>>, output |-> <<>>, target_path |-> NoPath,
             ret |-> "none", err |-> "none"]

\* mutant of Gathered: the worklist is handed over as soon as one manifest
\* has been read, while directories are still queued
Gathered_before_walk_ends ==
    /\ pc = "gather"
    /\ visited # <<>>
    /\ shaders' = gs_shaders
    /\ gs_shaders' = <<>>
    /\ gathered' = Append(gathered, Len(gs_shaders))
    /\ item' = [i \in DOMAIN gs_shaders |-> TodoItem]
    /\ compiling' = [i \in DOMAIN gs_shaders |-> <<>>]
    /\ compile_errors' = [i \in DOMAIN gs_shaders |-> <<>>]
    /\ pc' = "compile"
    /\ UNCHANGED << options, tree, queued_directories, visited, result, success,
                    exit_code, completed, files, dirs >>

\* The stack is empty: gather_shaders returns Ok (line 124), build binds the
\* worklist and reports its length (lines 72-73); the parallel iteration
\* over the worklist starts.
Gathered ==
    /\ pc = "gather"
    /\ queued_directories = <<>>
    /\ shaders' = gs_shaders
    /\ gs_shaders' = <<>>
    /\ gathered' = Append(gathered, Len(gs_shaders))
    /\ item' = [i \in DOMAIN gs_shaders |-> TodoItem]
    /\ compiling' = [i \in DOMAIN gs_shaders |-> <<>>]
    /\ compile_errors' = [i \in DOMAIN gs_shaders |-> <<>>]
    /\ pc' = "compile"
    /\ UNCHANGED << options, tree, queued_directories, visited, result, success,
                    exit_code, completed, files, dirs >>

\* ------------------------------------------------------- compile pipeline
Ok(v) == [ok |-> TRUE, v |-> v, err |-> "none"]
Err(e) == [ok |-> FALSE, v |-> <<>>, err |-> e]

\* The byte contents a source file may have.
Contents == { <<1>>, <<2, 3>> }

\* ShaderSourceKind::guess
guess(path) ==
    LET e == extension(path) IN
    IF ~e.some THEN None
    ELSE IF e.v = <<"wgsl">> THEN Some("Wgsl")
    ELSE IF e.v = <<"glsl">> THEN Some("Glsl")
    ELSE None

\* mutant of compile_fn: GLSL to WGSL is sent through the naga pipeline
compile_fn_glsl_to_wgsl(source_kind, target) ==
    CASE source_kind = "Wgsl" /\ target \in {"Glsl", "Spirv"} -> Some("compile_naga_wgsl")
      [] source_kind = "Wgsl" /\ target = "Wgsl" -> Some("compile_identity")
      [] source_kind = "Glsl" /\ target = "Spirv" -> Some("compile_shaderc_glsl")
      [] source_kind = "Glsl" /\ target = "Wgsl" -> Some("compile_naga_wgsl")
      [] source_kind = "Glsl" /\ target = "Glsl" -> Some("compile_identity")

\* mutant of compile_fn: every WGSL source goes through the naga pipeline
compile_fn_wgsl_via_naga(source_kind, target) ==
    CASE source_kind = "Wgsl" -> Some("compile_naga_wgsl")
      [] source_kind = "Glsl" /\ target = "Spirv" -> Some("compile_shaderc_glsl")
      [] source_kind = "Glsl" /\ target = "Wgsl" -> None
      [] source_kind = "Glsl" /\ target = "Glsl" -> Some("compile_identity")

\* compile_fn: the dispatch table
compile_fn(source_kind, target) ==
    CASE source_kind = "Wgsl" /\ target \in {"Glsl", "Spirv"} -> Some("compile_naga_wgsl")
      [] source_kind = "Wgsl" /\ target = "Wgsl" -> Some("compile_identity")
      [] source_kind = "Glsl" /\ target = "Spirv" -> Some("compile_shaderc_glsl")
      [] source_kind = "Glsl" /\ target = "Wgsl" -> None
      [] source_kind = "Glsl" /\ target = "Glsl" -> Some("compile_identity")

\* mutant of compile_identity: the copy loses the source's first byte
compile_identity_truncating(source, kind, target) == Ok(Tail(source))

\* compile_identity
compile_identity(source, kind, target) == Ok(source)

\* compile_naga: the back ends are external; accepted says whether they
\* succeed, and the emitted bytes are a header followed by the module. The
\* WGSL arm is unreachable!(), a panic.
compile_naga(module, kind, target, accepted) ==
    CASE target = "Spirv" -> IF accepted THEN Ok(<<3>> \o module) ELSE Err("naga spv")
      [] target = "Glsl" -> IF accepted THEN Ok(<<35>> \o module) ELSE Err("naga glsl")
      [] target = "Wgsl" -> Err("unreachable")

\* compile_naga_wgsl: the front end is external; parses says whether it
\* accepts the text.
compile_naga_wgsl(source, kind, target, parses, accepted) ==
    IF ~parses THEN Err("failed to parse WGSL")
    ELSE compile_naga(source, kind, target, accepted)

\* compile_shaderc_glsl: the compiler is external.
compile_shaderc_glsl(source, kind, target, accepted) ==
    IF accepted THEN Ok(<<3>> \o source) ELSE Err("shaderc")

\* calling the function pointer compile_fn returned (line 158)
call(f, source, kind, target, parses, accepted) ==
    CASE f = "compile_identity" -> compile_identity(source, kind, target)
      [] f = "compile_naga_wgsl" -> compile_naga_wgsl(source, kind, target, parses, accepted)
      [] f = "compile_shaderc_glsl" -> compile_shaderc_glsl(source, kind, target, accepted)

\* mutant of compile_source: without a table entry the source is copied
compile_source_copies_unsupported(source, shader, opts, parses, accepted) ==
    LET source_kind == guess(shader.path) IN
    IF ~source_kind.some THEN Err("failed to guess shader source kind")
    ELSE LET f == compile_fn(source_kind.v, opts.target) IN
         IF ~f.some THEN Ok(source)
         ELSE LET r == call(f.v, source, shader.kind, opts.target, parses, accepted) IN
              IF r.ok \/ r.err = "unreachable" THEN r
              ELSE Err("failed to compile shader")

\* compile_source: an error of the transformation is wrapped; the panic of
\* unreachable!() is no error value and unwinds through it.
compile_source(source, shader, opts, parses, accepted) ==
    LET source_kind == guess(shader.path) IN
    IF ~source_kind.some THEN Err("failed to guess shader source kind")
    ELSE LET f == compile_fn(source_kind.v, opts.target) IN
         IF ~f.some THEN Err("failed to find a suitable compilation tool")
         ELSE LET r == call(f.v, source, shader.kind, opts.target, parses, accepted) IN
              IF r.ok \/ r.err = "unreachable" THEN r
              ELSE Err("failed to compile shader")

\* compile, line 128
source_path_of(shader, opts) == join(opts.source_dir, shader.path)

\* compile, lines 134-135: the source path relative to the source root
base_path_of(shader, opts) == diff_paths(source_path_of(shader, opts), opts.source_dir)

\* mutant of target_path_from: the output tree is flat, every file directly
\* under the target root
target_path_flat(base_path, opts) ==
    set_extension(join(opts.target_dir,
                       P(FALSE, IF file_name(base_path).some
                                THEN << file_name(base_path).v >> ELSE <<>>)),
                  Target_extension(opts.target))

\* compile, lines 136-137: where the output goes
target_path_from(base_path, opts) ==
    set_extension(join(opts.target_dir, base_path), Target_extension(opts.target))

\* compile, lines 134-137
target_path_of(shader, opts) ==
    LET base_path == base_path_of(shader, opts) IN
    IF ~base_path.some THEN None ELSE Some(target_path_from(base_path.v, opts))

\* ----------------------------------------------- the closure of for_each
Items == DOMAIN item

\* logger.on_compiling (line 78)
Compiling(i) ==
    /\ pc = "compile"
    /\ item[i].pc = "todo"
    /\ compiling' = [compiling EXCEPT ![i] = Append(@, shaders[i].name)]
    /\ item' = [item EXCEPT ![i].pc = "read"]
    /\ UNCHANGED << options, tree, pc, queued_directories, gs_shaders, visited, shaders, result,
                    success, exit_code, gathered, compile_errors, completed, files, dirs >>

Failed(i, e) == [TodoItem EXCEPT !.pc = "error", !.ret = "Err", !.err = e]

\* what create_dir_all creates: the directory and every ancestor of it
WithAncestors(p) == {P(p.abs, SubSeq(p.comps, 1, k)) : k \in 1..Len(p.comps)}

\* mutant of Read: the output directory is created before the source is
\* read and transformed
Read_creating_directories_first(i) ==
    /\ pc = "compile"
    /\ item[i].pc = "read"
    /\ \E source \in {None} \cup {Some(c) : c \in Contents} :
       \E parses \in (IF source.some THEN BOOLEAN ELSE {FALSE}) :
       \E accepted \in (IF parses THEN BOOLEAN ELSE {FALSE}) :
          IF ~source.some
          THEN item' = [item EXCEPT ![i] = Failed(i, "failed to read")]
          ELSE LET output == compile_source(source.v, shaders[i], options, parses, accepted)
                   target_path == target_path_of(shaders[i], options)
               IN IF output.err = "unreachable"
                  THEN item' = [item EXCEPT ![i] = [TodoItem EXCEPT !.pc = "panicked"]]
                  ELSE IF ~output.ok THEN item' = [item EXCEPT ![i] = Failed(i, output.err)]
                  ELSE IF ~target_path.some
                  THEN item' = [item EXCEPT ![i] = Failed(i, "no base path")]
                  ELSE item' = [item EXCEPT ![i] =
                                  [TodoItem EXCEPT !.pc = "mkdir", !.source = source.v,
                                                   !.output = output.v,
                                                   !.target_path = target_path.v]]
    /\ LET target_path == target_path_of(shaders[i], options) IN
       dirs' = IF target_path.some /\ parent(target_path.v).some
               THEN dirs \cup WithAncestors(parent(target_path.v).v)
               ELSE dirs
    /\ UNCHANGED << options, tree, pc, queued_directories, gs_shaders, visited, shaders, result,
                    success, exit_code, gathered, compiling, compile_errors, completed,
                    files >>


\* compile, lines 128-137: read the source, transform it, derive the output
\* path. The file system decides what the read returns. A panic in the
\* transformation ends the closure there.
Read(i) ==
    /\ pc = "compile"
    /\ item[i].pc = "read"
    /\ \E source \in {None} \cup {Some(c) : c \in Contents} :
       \E parses \in (IF source.some THEN BOOLEAN ELSE {FALSE}) :
       \E accepted \in (IF parses THEN BOOLEAN ELSE {FALSE}) :
          IF ~source.some
          THEN item' = [item EXCEPT ![i] = Failed(i, "failed to read")]
          ELSE LET output == compile_source(source.v, shaders[i], options, parses, accepted)
                   target_path == target_path_of(shaders[i], options)
               IN IF output.err = "unreachable"
                  THEN item' = [item EXCEPT ![i] = [TodoItem EXCEPT !.pc = "panicked"]]
                  ELSE IF ~output.ok THEN item' = [item EXCEPT ![i] = Failed(i, output.err)]
                  ELSE IF ~target_path.some
                  THEN item' = [item EXCEPT ![i] = Failed(i, "no base path")]
                  ELSE item' = [item EXCEPT ![i] =
                                  [TodoItem EXCEPT !.pc = "mkdir", !.source = source.v,
                                                   !.output = output.v,
                                                   !.target_path = target_path.v]]
    /\ UNCHANGED << options, tree, pc, queued_directories, gs_shaders, visited, shaders, result,
                    success, exit_code, gathered, compiling, compile_errors, completed,
                    files, dirs >>

\* mutant of Mkdir: a failure of create_dir_all fails the shader
Mkdir_or_fail(i) ==
    /\ pc = "compile"
    /\ item[i].pc = "mkdir"
    /\ LET par == parent(item[i].target_path) IN
       IF par.some
       THEN \E created \in BOOLEAN :
               /\ dirs' = IF created THEN dirs \cup WithAncestors(par.v) ELSE dirs
               /\ item' = IF created THEN [item EXCEPT ![i].pc = "write"]
                          ELSE [item EXCEPT ![i] = Failed(i, "failed to create directory")]
       ELSE /\ dirs' = dirs
            /\ item' = [item EXCEPT ![i].pc = "write"]
    /\ UNCHANGED << options, tree, pc, queued_directories, gs_shaders, visited, shaders, result,
                    success, exit_code, gathered, compiling, compile_errors, completed,
                    files >>

\* compile, lines 138-140: create_dir_all on the parent, its result ignored
Mkdir(i) ==
    /\ pc = "compile"
    /\ item[i].pc = "mkdir"
    /\ LET par == parent(item[i].target_path) IN
       IF par.some
       THEN \E created \in BOOLEAN :
               dirs' = IF created THEN dirs \cup WithAncestors(par.v) ELSE dirs
       ELSE dirs' = dirs
    /\ item' = [item EXCEPT ![i].pc = "write"]
    /\ UNCHANGED << options, tree, pc, queued_directories, gs_shaders, visited, shaders, result,
                    success, exit_code, gathered, compiling, compile_errors, completed,
                    files >>

\* a directory a file can be created in: one create_dir_all made, or the
\* working directory or file system root
DirExists(p) == p.comps = <<>> \/ p \in dirs

\* compile, line 141, first half of fs::write: File::create opens the output
\* file, creating it or truncating what it holds; the file system decides
\* whether that succeeds, and it cannot without a file name or a directory.
Create(i) ==
    /\ pc = "compile"
    /\ item[i].pc = "write"
    /\ LET tp == item[i].target_path IN
       \E created \in BOOLEAN :
          /\ created => file_name(tp).some /\ DirExists(parent(tp).v)
          /\ IF created
             THEN /\ files' = [p \in DOMAIN files \cup {tp} |->
                                  IF p = tp THEN <<>> ELSE files[p]]
                  /\ item' = [item EXCEPT ![i].pc = "write_all"]
             ELSE /\ files' = files
                  /\ item' = [item EXCEPT ![i] = Failed(i, "failed to write")]
    /\ UNCHANGED << options, tree, pc, queued_directories, gs_shaders, visited, shaders,
                    result, success, exit_code, gathered, compiling, compile_errors,
                    completed, dirs >>

\* what a file holds after bytes are written at its start: the bytes, then
\* whatever the file held beyond them
Overwritten(old, bytes) == bytes \o SubSeq(old, Len(bytes) + 1, Len(old))

\* compile, lines 141-143, second half of fs::write: write_all puts the
\* output at the start of the opened file; compile returns its result.
WriteAll(i) ==
    /\ pc = "compile"
    /\ item[i].pc = "write_all"
    /\ LET tp == item[i].target_path IN
       \E written \in BOOLEAN :
          IF written
          THEN /\ files' = [files EXCEPT ![tp] = Overwritten(@, item[i].output)]
               /\ item' = [item EXCEPT ![i] = [TodoItem EXCEPT !.pc = "done", !.ret = "Ok"]]
          ELSE /\ files' = files
               /\ item' = [item EXCEPT ![i] = Failed(i, "failed to write")]
    /\ UNCHANGED << options, tree, pc, queued_directories, gs_shaders, visited, shaders,
                    result, success, exit_code, gathered, compiling, compile_errors,
                    completed, dirs >>

\* mutant of LogError: every error is reported under the name of the first
\* worklist item
LogError_first_name(i) ==
    /\ pc = "compile"
    /\ item[i].pc = "error"
    /\ compile_errors' = [compile_errors EXCEPT ![i] = Append(@, shaders[1].name)]
    /\ item' = [item EXCEPT ![i].pc = "store", ![i].err = "none"]
    /\ UNCHANGED << options, tree, pc, queued_directories, gs_shaders, visited, shaders,
                    result, success, exit_code, gathered, compiling, completed, files,
                    dirs >>

\* logger.on_compile_error (line 80), the last use of the error value
LogError(i) ==
    /\ pc = "compile"
    /\ item[i].pc = "error"
    /\ compile_errors' = [compile_errors EXCEPT ![i] = Append(@, shaders[i].name)]
    /\ item' = [item EXCEPT ![i].pc = "store", ![i].err = "none"]
    /\ UNCHANGED << options, tree, pc, queued_directories, gs_shaders, visited, shaders, result,
                    success, exit_code, gathered, compiling, completed, files, dirs >>

\* mutant of StoreFalse: the flag is flipped instead of cleared
StoreFalse_flipping(i) ==
    /\ pc = "compile"
    /\ item[i].pc = "store"
    /\ success' = ~success
    /\ item' = [item EXCEPT ![i].pc = "done", ![i].err = "none"]
    /\ UNCHANGED << options, tree, pc, queued_directories, gs_shaders, visited, shaders,
                    result, exit_code, gathered, compiling, compile_errors, completed,
                    files, dirs >>

\* success.store(false) (line 81)
StoreFalse(i) ==
    /\ pc = "compile"
    /\ item[i].pc = "store"
    /\ success' = FALSE
    /\ item' = [item EXCEPT ![i].pc = "done", ![i].err = "none"]
    /\ UNCHANGED << options, tree, pc, queued_directories, gs_shaders, visited, shaders, result,
                    exit_code, gathered, compiling, compile_errors, completed, files, dirs >>

\* mutant of for_each_returned: the iteration stops at the first failure
for_each_until_failure ==
    \/ \A i \in DOMAIN item : item[i].pc = "done"
    \/ \E i \in DOMAIN item : item[i].pc = "done" /\ item[i].ret = "Err"

\* for_each returns once the closure has run to its end for every item
for_each_returned == \A i \in Items : item[i].pc = "done"

\* mutant of exit_code_of: the flag is ignored
exit_code_always_zero(flag) == 0

\* line 85
exit_code_of(flag) == IF flag THEN 0 ELSE 1

\* for_each has returned: load the flag and exit (lines 85-86)
Exit ==
    /\ pc = "compile"
    /\ for_each_returned
    /\ exit_code' = exit_code_of(success)
    /\ pc' = "exited"
    /\ UNCHANGED << options, tree, queued_directories, gs_shaders, visited, shaders, result, item,
                    success, gathered, compiling, compile_errors, completed, files, dirs >>

Next ==
    \/ GatherStep
    \/ Gathered
    \/ \E i \in Items : Compiling(i)
    \/ \E i \in Items : Read(i)
    \/ \E i \in Items : Mkdir(i)
    \/ \E i \in Items : Create(i)
    \/ \E i \in Items : WriteAll(i)
    \/ \E i \in Items : LogError(i)
    \/ \E i \in Items : StoreFalse(i)
    \/ Exit

Spec == Init /\ [][Next]_vars

\* build over the manifest graphs. gather_shaders is one thread running its
\* loop, so an iteration that can be taken is taken, and so is its return.
GraphSpec ==
    InitGraphs /\ [][Next]_vars /\ WF_vars(GatherStep) /\ WF_vars(Gathered)

TypeOK ==
    /\ pc \in {"gather", "compile", "exited", "returned"}
    /\ success \in BOOLEAN
    /\ exit_code \in {-1, 0, 1}
    /\ DOMAIN item = DOMAIN shaders
    /\ \A i \in Items : item[i].pc \in {"todo", "read", "mkdir", "write", "write_all", "error", "store",
                                  "done", "panicked"}

\* ------------------------------------------------------------------ claims
Started == pc \in {"compile", "exited"}

\* C1: once discovery has succeeded and the build has exited, the exit status
\* is 1 exactly when some shader's compile returned an error, and 0 exactly
\* when every shader's compile returned Ok.
C1_ExitStatusIffFailure ==
    pc = "exited" =>
        /\ exit_code \in {0, 1}
        /\ (exit_code = 1 <=> \E i \in Items : item[i].ret = "Err")
        /\ (exit_code = 0 <=> \A i \in Items : item[i].ret = "Ok")

C1_Witness ==
    /\ pc = "exited"
    /\ exit_code = 1
    /\ \E i, j \in Items : item[i].ret = "Err" /\ item[j].ret = "Ok"

\* C2: when the aggregate result is computed, every worklist item has been
\* started exactly once and has returned from compile (Ok or Err); a
\* returned result never changes afterwards, so it is reported once.
C2_Completed ==
    pc = "exited" =>
        /\ DOMAIN item = DOMAIN shaders
        /\ \A i \in Items :
              /\ Len(compiling[i]) = 1
              /\ item[i].pc = "done"
              /\ item[i].ret \in {"Ok", "Err"}

C2_Once ==
    \A i \in Items :
        /\ Len(compiling'[i]) >= Len(compiling[i])
        /\ item[i].ret # "none" => item'[i].ret = item[i].ret

C2_AllItemsRunOnce == []C2_Completed /\ [][C2_Once]_vars

C2_Witness ==
    /\ pc = "exited"
    /\ Len(shaders) >= 2
    /\ item[1].ret = "Err"
    /\ item[2].ret = "Ok"
    /\ Len(compiling[2]) = 1

\* the tree holds a manifest that is missing or malformed
TreeHasBad ==
    \/ <<>> \notin DOMAIN tree
    \/ \E d \in DOMAIN tree :
          \/ ~tree[d].wellformed
          \/ \E k \in DOMAIN tree[d].subdirectories :
                (d \o tree[d].subdirectories[k].comps) \notin DOMAIN tree

\* C3: with an unreadable or malformed manifest in the tree, discovery never
\* hands over a worklist: build returns the error, nothing is compiled,
\* nothing is written or created, and the logger is never called.
C3_DiscoveryFailureAborts ==
    TreeHasBad =>
        /\ pc \in {"gather", "returned"}
        /\ (queued_directories = <<>> => pc = "returned")
        /\ (pc = "returned" => result \in {"failed to read", "malformed manifest file"}
                                /\ gs_shaders = <<>>)
        /\ shaders = <<>> /\ item = <<>>
        /\ files = <<>> /\ dirs = {}
        /\ gathered = <<>> /\ compiling = <<>> /\ compile_errors = <<>>
        /\ completed = 0 /\ exit_code = -1

\* a failure after the root manifest had already contributed shaders
C3_Witness ==
    /\ pc = "returned"
    /\ result = "malformed manifest file"
    /\ <<>> \in DOMAIN tree
    /\ tree[<<>>].wellformed
    /\ DOMAIN tree[<<>>].shaders # {}

\* the declarations of the tree, each with the directory that declares it
Declarations == {<<d, n>> \in (DOMAIN tree) \X (DOMAIN ShaderPool) : n \in DOMAIN tree[d].shaders}

\* a declaration's path below the source root: its ancestors, root to leaf,
\* then its declared path
RelativeToRoot(d, n) == P(FALSE, d \o tree[d].shaders[n].path.comps)

\* C4: after a successful discovery the worklist has one entry per
\* declaration, whose path is the declaration's path relative to the source
\* root, with the declared name and kind.
C4_EntriesRelativeToRoot ==
    (Started /\ ~TreeHasBad) =>
        /\ Len(shaders) = Cardinality(Declarations)
        /\ \A dn \in Declarations :
              \E i \in DOMAIN shaders :
                 shaders[i] = ShaderToCompile(dn[2], RelativeToRoot(dn[1], dn[2]),
                                              tree[dn[1]].shaders[dn[2]].kind)

\* where the spec puts a declaration's output
MirroredOutput(d, n) ==
    set_extension(join(options.target_dir, RelativeToRoot(d, n)),
                  Target_extension(options.target))

\* C5: every file written lies at the target root joined with a declared
\* shader's path relative to the source root, its extension replaced by the
\* target's.
C5_OutputMirrorsSource ==
    \A p \in DOMAIN files : \E dn \in Declarations : p = MirroredOutput(dn[1], dn[2])

\* the table of the spec, section 4.2
DispatchTable ==
    [sk \in {"Wgsl", "Glsl"}, t \in Targets |->
        CASE sk = "Wgsl" /\ t = "Spirv" -> Some("compile_naga_wgsl")
          [] sk = "Wgsl" /\ t = "Wgsl" -> Some("compile_identity")
          [] sk = "Wgsl" /\ t = "Glsl" -> Some("compile_naga_wgsl")
          [] sk = "Glsl" /\ t = "Spirv" -> Some("compile_shaderc_glsl")
          [] sk = "Glsl" /\ t = "Wgsl" -> None
          [] sk = "Glsl" /\ t = "Glsl" -> Some("compile_identity")]

SourceKind(i) == guess(shaders[i].path)

\* C6: for every worklist item of a recognised source format, the function
\* compile_fn selects for the configured target is the one of the table, and
\* GLSL to WGSL is the only pair without one.
C6_DispatchAgreesWithTable ==
    \A i \in DOMAIN shaders :
        LET sk == SourceKind(i) IN
        sk.some =>
            LET f == compile_fn(sk.v, options.target) IN
            /\ f = DispatchTable[sk.v, options.target]
            /\ (~f.some <=> (sk.v = "Glsl" /\ options.target = "Wgsl"))

C6_Witness ==
    \E i, j \in Items :
        /\ SourceKind(i).some /\ SourceKind(i).v = "Glsl"
        /\ SourceKind(j).some /\ SourceKind(j).v = "Wgsl"
        /\ options.target = "Wgsl"
        /\ item[i].pc = "error" /\ item[i].err = "failed to find a suitable compilation tool"
        /\ item[j].ret = "Ok"

\* item i pairs a recognised source format with a target the table has no
\* entry for
NoPath_(i) ==
    SourceKind(i).some /\ ~DispatchTable[SourceKind(i).v, options.target].some

OutOf(i) == target_path_of(shaders[i], options)

WritesNothing(i) ==
    /\ item[i].pc \notin {"mkdir", "write", "write_all"}
    /\ item[i].ret # "Ok"
    /\ LET out == OutOf(i) IN
       (out.some /\ out.v \in DOMAIN files) => \E j \in Items \ {i} : OutOf(j) = out

\* C7 as stated: a shader of a pair without table entry fails, its error is
\* always the dispatch error, and it writes nothing.
C7_AlwaysDispatchError ==
    \A i \in Items :
        NoPath_(i) =>
            /\ WritesNothing(i)
            /\ item[i].pc = "error"
                  => item[i].err = "failed to find a suitable compilation tool"

\* C7 amended: a shader of a pair without table entry fails and writes
\* nothing; its error is the dispatch error unless its source could not be
\* read, which fails it earlier with the read error.
C7_DispatchOrReadError ==
    \A i \in Items :
        NoPath_(i) =>
            /\ WritesNothing(i)
            /\ item[i].pc = "error"
                  => item[i].err \in {"failed to find a suitable compilation tool",
                                      "failed to read"}
            /\ item[i].pc = "done" => item[i].ret = "Err"

\* the pair fails its own shader only: a sibling has compiled
C7_Witness ==
    \E i, j \in Items :
        /\ NoPath_(i)
        /\ item[i].pc = "done" /\ item[i].ret = "Err" /\ Len(compile_errors[i]) = 1
        /\ item[j].ret = "Ok"
        /\ OutOf(j).v \in DOMAIN files
        /\ OutOf(i).v \notin DOMAIN files

\* item i compiles a language to itself
IdentityPair(i) == SourceKind(i).some /\ SourceKind(i).v = options.target

\* in flight, an identity item's output is its source and its
\* transformation has not failed
C8_InFlight ==
    \A i \in Items :
        IdentityPair(i) =>
            /\ item[i].pc \in {"mkdir", "write", "write_all"} => item[i].output = item[i].source
            /\ item[i].pc = "error" => item[i].err # "failed to compile shader"

\* the write of an identity item puts the bytes that were read at the start
\* of the output file
C8_Write ==
    \A i \in Items :
        (IdentityPair(i) /\ item[i].pc = "write_all" /\ item'[i].ret = "Ok")
            => /\ item[i].target_path \in DOMAIN files'
               /\ SubSeq(files'[item[i].target_path], 1, Len(item[i].source))
                     = item[i].source

\* C8: compiling WGSL to WGSL or GLSL to GLSL never fails in the
\* transformation step, and the bytes written are the bytes read.
C8_IdentityFixedPoint == []C8_InFlight /\ [][C8_Write]_vars

C8_Witness ==
    \E i \in Items :
        /\ IdentityPair(i)
        /\ item[i].ret = "Ok"
        /\ OutOf(i).v \in DOMAIN files
        /\ files[OutOf(i).v] = <<2, 3>>

\* the path of item i relative to the source root, as compile derives it
BaseOf(i) == base_path_of(shaders[i], options)

\* C9: two worklist items have the same output path only if their
\* source-relative paths have the same directory and the same file stem,
\* that is, differ in nothing but the extension.
C9_OutputPathInjective ==
    \A i \in DOMAIN shaders :
        LET bi == BaseOf(i) IN
        bi.some =>
            LET oi == target_path_from(bi.v, options) IN
            \A j \in 1..(i - 1) :
                LET bj == BaseOf(j) IN
                (bj.some /\ target_path_from(bj.v, options) = oi)
                    => /\ parent(bi.v) = parent(bj.v)
                       /\ file_stem(bi.v) = file_stem(bj.v)

\* same stem in different directories, both written, to different files
C9_Witness ==
    \E i, j \in Items :
        /\ file_stem(BaseOf(i).v) = file_stem(BaseOf(j).v)
        /\ parent(BaseOf(i).v) # parent(BaseOf(j).v)
        /\ item[i].ret = "Ok" /\ item[j].ret = "Ok"
        /\ OutOf(i).v \in DOMAIN files /\ OutOf(j).v \in DOMAIN files
        /\ OutOf(i) # OutOf(j)

\* C10: a build whose discovery succeeded has, when it exits, reported the
\* worklist length once, the start of every shader once, an error for every
\* failed shader, and completion once.
C10_AllNotifications ==
    pc = "exited" =>
        /\ gathered = << Len(shaders) >>
        /\ \A i \in Items :
              /\ Len(compiling[i]) = 1
              /\ item[i].ret = "Err" => Len(compile_errors[i]) = 1
        /\ completed = 1

\* a path that lies under the source root once "." and ".." are resolved
UnderRoot(p) ==
    LET r == resolve(p)
        root == resolve(options.source_dir)
    IN /\ r.abs = root.abs
       /\ Len(r.comps) > Len(root.comps)
       /\ SubSeq(r.comps, 1, Len(root.comps)) = root.comps

\* C11: every entry of the worklist a successful discovery hands over has a
\* path under the source root; a declaration or subdirectory that leaves the
\* root makes discovery fail instead.
C11_EntriesUnderRoot ==
    Started => \A i \in DOMAIN shaders : UnderRoot(shaders[i].path)

\* C12: while discovery runs (or after it failed) no shader has been
\* announced, read, transformed or written; and once any shader has been,
\* discovery has emptied its stack, every manifest's declarations are in the
\* worklist, and its length has been reported.
C12_GatherBeforeCompile ==
    /\ pc \in {"gather", "returned"} =>
          /\ item = <<>> /\ compiling = <<>> /\ compile_errors = <<>>
          /\ files = <<>> /\ dirs = {}
          /\ gathered = <<>>
    /\ ((\E i \in Items : item[i].pc # "todo" \/ compiling[i] # <<>>)
            \/ files # <<>> \/ dirs # {}) =>
          /\ queued_directories = <<>>
          /\ Len(visited) = Cardinality(DOMAIN tree)
          /\ Len(shaders) = Cardinality(Declarations)
          /\ gathered = << Len(shaders) >>

\* a shader of the second manifest read has been written
C12_Witness ==
    /\ Len(visited) >= 2
    /\ Len(shaders) >= 2
    /\ files # <<>>
    /\ \E i \in Items : item[i].ret = "Ok"

\* the manifest file of directory d of the tree
ManifestOf(d) == resolve(join(join(options.source_dir, P(FALSE, d)), ManifestName))

\* how often discovery has read the manifest of directory d
Visits(d) == Cardinality({k \in DOMAIN visited : resolve(visited[k]) = ManifestOf(d)})

\* the directories the manifest of d lists
ListedBy(d) ==
    {e \in DOMAIN tree :
        \E k \in DOMAIN tree[d].subdirectories :
            ManifestOf(e) = resolve(join(join(join(options.source_dir, P(FALSE, d)),
                                             tree[d].subdirectories[k]), ManifestName))}

RECURSIVE ReachableFrom(_)
ReachableFrom(S) ==
    LET T == S \cup UNION {ListedBy(d) : d \in S}
    IN IF T = S THEN S ELSE ReachableFrom(T)

\* a subdirectory cycle can be reached from the root manifest
CycleReachable ==
    \E d \in ReachableFrom({<<>>}) : d \in ReachableFrom(ListedBy(d))

\* C13: without a subdirectory cycle, a discovery that has finished has read
\* every manifest reachable from the root exactly once, however often its
\* directory is listed.
C13_VisitedExactlyOnce ==
    (Started /\ ~CycleReachable) =>
        \A d \in ReachableFrom({<<>>}) : Visits(d) = 1

\* with a cycle reachable, discovery never returns and its stack never
\* empties
C14_CycleNeverEnds ==
    CycleReachable => (pc = "gather" /\ queued_directories # <<>>)

\* C14: when every manifest reads and parses, discovery empties its stack
\* for a manifest graph without a subdirectory cycle, and never does when a
\* cycle is reachable from the root.
C14_TerminatesIffAcyclic ==
    []C14_CycleNeverEnds /\ <>(CycleReachable \/ queued_directories = <<>>)

\* the cycle has been followed as far as the model goes, a manifest read
\* again and its shaders gathered again
C14_Witness ==
    /\ CycleReachable
    /\ Len(visited) = MaxVisits
    /\ \E d \in DOMAIN tree : Visits(d) >= 2
    /\ Len(gs_shaders) >= 2

\* the flag is true until a compile has failed, and false once a failed
\* item has finished; the exit status exists only when every item has
\* finished
C15_FlagInv ==
    /\ pc = "gather" => success
    /\ (\A i \in Items : item[i].ret # "Err") => success
    /\ \A i \in Items : (item[i].pc = "done" /\ item[i].ret = "Err") => ~success
    /\ exit_code # -1 => for_each_returned

\* the flag changes only from true to false, in the step of a worker whose
\* compile failed; it is loaded once, when every worker has finished
C15_FlagStep ==
    /\ success' # success =>
          /\ success /\ ~success'
          /\ \E i \in Items : /\ item[i].pc = "store" /\ item[i].ret = "Err"
                               /\ item'[i].pc = "done"
    /\ exit_code' # exit_code =>
          /\ exit_code = -1
          /\ for_each_returned
          /\ success' = success
          /\ exit_code' = (IF success THEN 0 ELSE 1)

\* C15: the success flag starts true, is only ever written to false, by a
\* worker whose shader failed, and never back to true, so no failure is
\* lost; it is read once, after every worker has finished its item.
C15_FlagMonotone == []C15_FlagInv /\ [][C15_FlagStep]_vars

\* a second failing worker is about to store into the already false flag
C15_Witness ==
    /\ ~success
    /\ \E i, j \in Items :
          /\ item[i].pc = "done" /\ item[i].ret = "Err"
          /\ item[j].pc = "store"

\* C16: a failed compile is reported through on_compile_error and nowhere
\* else: an item has at most one such call, carrying its own name, made
\* after its on_compiling call and only when its compile returned an error;
\* a finished item has one exactly when it failed; build itself returns no
\* error.
C16_ErrorReportedOnce ==
    /\ Started => result = "none"
    /\ \A i \in Items :
          /\ Len(compile_errors[i]) <= 1
          /\ compile_errors[i] # <<>> =>
                /\ compile_errors[i] = << shaders[i].name >>
                /\ compiling[i] = << shaders[i].name >>
                /\ item[i].ret = "Err"
          /\ item[i].pc \in {"store", "done"} =>
                (item[i].ret = "Err" <=> compile_errors[i] # <<>>)
          /\ item[i].pc = "error" => compile_errors[i] = <<>>

\* the second item failed and was reported under its name, the first
\* succeeded unreported, and build went on to its exit
C16_Witness ==
    /\ pc = "exited"
    /\ Len(shaders) = 2
    /\ shaders[1].name # shaders[2].name
    /\ item[1].ret = "Ok" /\ compile_errors[1] = <<>>
    /\ item[2].ret = "Err" /\ compile_errors[2] = << shaders[2].name >>

\* the errors of the steps before the output is touched
EarlyErrors ==
    {"failed to read", "failed to guess shader source kind",
     "failed to find a suitable compilation tool", "failed to compile shader"}

\* an item about to create its directory or write has a recognised format,
\* a table entry, and holds the output of a successful transformation of
\* the bytes it read
C17_PipelineSucceeded ==
    \A i \in Items :
        item[i].pc \in {"mkdir", "write", "write_all"} =>
            /\ SourceKind(i).some
            /\ compile_fn(SourceKind(i).v, options.target).some
            /\ \E parses, accepted \in BOOLEAN :
                  compile_source(item[i].source, shaders[i], options, parses, accepted)
                      = Ok(item[i].output)

\* directories and files change only in the steps of such an item, and only
\* at its own output path
C17_MutationStep ==
    /\ dirs' # dirs =>
          \E i \in Items :
              /\ item[i].pc = "mkdir"
              /\ dirs' \subseteq dirs \cup WithAncestors(parent(item[i].target_path).v)
    /\ files' # files =>
          \E i \in Items :
              /\ item[i].pc \in {"write", "write_all"}
              /\ DOMAIN files' = DOMAIN files \cup {item[i].target_path}
              /\ \A p \in DOMAIN files : p # item[i].target_path => files'[p] = files[p]

\* a shader that succeeded has its output file
C17_SucceededPresent ==
    \A i \in Items : item[i].ret = "Ok" => OutOf(i).v \in DOMAIN files

\* a shader that failed before the output is touched has no file at its
\* output path
C17_FailedAbsent ==
    \A i \in Items :
        (item[i].pc = "error" /\ item[i].err \in EarlyErrors /\ OutOf(i).some)
            => OutOf(i).v \notin DOMAIN files

\* ... unless another worklist item has the same output path
C17_FailedAbsentUnlessShared ==
    \A i \in Items :
        (item[i].pc = "error" /\ item[i].err \in EarlyErrors /\ OutOf(i).some
            /\ OutOf(i).v \in DOMAIN files)
            => \E j \in Items \ {i} : OutOf(j) = OutOf(i)

\* C17 as stated: compile touches the file system only after read, format
\* detection, dispatch and transformation succeeded, so the output file of a
\* shader that failed in one of them does not exist, and that of every
\* shader that succeeded does.
C17_AsStated ==
    /\ [](C17_PipelineSucceeded /\ C17_SucceededPresent /\ C17_FailedAbsent)
    /\ [][C17_MutationStep]_vars

\* C17 amended: the same, except that the output path of a shader that
\* failed may hold a file when another worklist item maps to that path.
C17_NoMutationBeforeSuccess ==
    /\ [](C17_PipelineSucceeded /\ C17_SucceededPresent /\ C17_FailedAbsentUnlessShared)
    /\ [][C17_MutationStep]_vars

\* a shader failed in its transformation while a sibling with the same
\* output path has written the file
C17_Witness ==
    \E i, j \in Items :
        /\ item[i].pc = "error" /\ item[i].err = "failed to compile shader"
        /\ item[j].ret = "Ok"
        /\ OutOf(j) = OutOf(i)
        /\ OutOf(i).v \in DOMAIN files

\* items i and j are different, map to the same output file and have both
\* compiled successfully
BothCompiled(i, j) ==
    /\ i # j
    /\ OutOf(i).some /\ OutOf(i) = OutOf(j)
    /\ item[i].ret = "Ok" /\ item[j].ret = "Ok"

\* the outputs compile_source can produce for item i
Outputs(i) ==
    {r.v : r \in {x \in {compile_source(c, shaders[i], options, TRUE, TRUE) : c \in Contents}
                     : x.ok}}

\* such a pair does not fail the build, and the file holds a complete output
\* of one of the two
C18_OneOfTheTwo ==
    \A i, j \in Items :
        BothCompiled(i, j) =>
            /\ pc = "exited" => exit_code = 0
            /\ files[OutOf(i).v] \in Outputs(i) \cup Outputs(j)

\* the file holds the complete output of the item whose write returned last
C18_LastWriterWins ==
    \A i \in Items :
        (item[i].pc = "write_all" /\ item'[i].ret = "Ok")
            => files'[item[i].target_path] = item[i].output

\* C18: when two worklist items map to the same output file and both
\* compile successfully, the build succeeds and the file holds the complete
\* output of one of the two, the one that wrote last.
C18_AsStated == []C18_OneOfTheTwo /\ [][C18_LastWriterWins]_vars

\* whatever create_dir_all did, the item goes on to the write, unfailed
C19_MkdirStep ==
    \A i \in Items :
        (item[i].pc = "mkdir" /\ item'[i] # item[i])
            => /\ item'[i].pc = "write"
               /\ item'[i].ret = "none"
               /\ item'[i].output = item[i].output

\* from the write the item fails exactly when the file was not created or
\* the bytes were not written
C19_WriteStep ==
    \A i \in Items :
        LET tp == item[i].target_path IN
        /\ (item[i].pc = "write" /\ item'[i] # item[i]) =>
              \/ /\ item'[i].pc = "write_all"
                 /\ tp \in DOMAIN files' /\ files'[tp] = <<>>
              \/ /\ item'[i].pc = "error" /\ item'[i].err = "failed to write"
                 /\ files' = files
        /\ (item[i].pc = "write_all" /\ item'[i] # item[i]) =>
              \/ /\ item'[i].pc = "done" /\ item'[i].ret = "Ok"
                 /\ SubSeq(files'[tp], 1, Len(item[i].output)) = item[i].output
              \/ /\ item'[i].pc = "error" /\ item'[i].err = "failed to write"
                 /\ files' = files

\* C19: a failure to create the parent directories of the output never
\* fails the shader: compile goes on to the write, and from there the shader
\* fails exactly when the write fails.
C19_OnlyWriteFails == [][C19_MkdirStep /\ C19_WriteStep]_vars

\* create_dir_all failed for an item that is now at its write, beside a
\* shader that was written
C19_Witness ==
    \E i, j \in Items :
        /\ item[i].pc = "write"
        /\ parent(item[i].target_path).v \notin dirs
        /\ item[j].ret = "Ok"

\* C20: compile_fn selects the naga pipeline only for the targets
\* compile_naga can emit, SPIR-V and GLSL, so no worklist item is ever sent
\* through it with the WGSL target and no worker ever reaches the
\* unreachable arm of compile_naga.
C20_NagaNeverForWgsl ==
    /\ \A sk \in {"Wgsl", "Glsl"} :
          compile_fn(sk, "Wgsl") # Some("compile_naga_wgsl")
    /\ \A i \in DOMAIN shaders :
          LET sk == SourceKind(i) IN
          (sk.some /\ compile_fn(sk.v, options.target) = Some("compile_naga_wgsl"))
              => options.target \in {"Spirv", "Glsl"}
    /\ \A i \in Items : item[i].pc # "panicked"

\* a WGSL shader went through naga to GLSL
C20_Witness ==
    \E i \in Items :
        /\ SourceKind(i).some
        /\ compile_fn(SourceKind(i).v, options.target) = Some("compile_naga_wgsl")
        /\ options.target = "Glsl"
        /\ item[i].ret = "Ok"
        /\ OutOf(i).v \in DOMAIN files
        /\ files[OutOf(i).v] = <<35, 2, 3>>

====
